---- MODULE Spec2Model ----
(***************************************************************************)
(* Model of CP210x/SerialDevice.cpp: the lifecycle of one                  *)
(* coop_plausible_CP210x_SerialDevice object (init, free) and the          *)
(* device-name-suffix resolution getDeviceNameSuffix that init calls.      *)
(*                                                                         *)
(* C strings are sequences of one-character strings.  A pointer is a       *)
(* sequence of length at most one: NULL is <<>> and a pointer to the       *)
(* object x is <<x>>.                                                      *)
(***************************************************************************)
EXTENDS Integers, Sequences, FiniteSets, TLC

(***************************************************************************)
(* Bounds of the model.                                                    *)
(***************************************************************************)
\* Serial numbers "1", "11", ... of up to MaxSerialLen characters are tried
\* in addition to the fixed serial strings below.
MaxSerialLen == 2
\* Interface numbers 0..MaxInterface are tried in addition to a two-digit one.
MaxInterface == 1

(***************************************************************************)
(* Pointers, C strings, snprintf.                                          *)
(***************************************************************************)
NULL == <<>>

Min(a, b) == IF a < b THEN a ELSE b

\* OSString::withCString(s): a new string object holding a copy of s.
OSString_withCString(s) == <<s>>

\* OSString::getCStringNoCopy / getLength.
getCStringNoCopy(p) == p[1]
getLength(p) == Len(p[1])

\* strnlen(s, n)
strnlen(s, n) == Min(Len(s), n)

\* snprintf(buf, size, ...): at most size - 1 characters of the formatted
\* text are stored.
snprintf(size, text) == SubSeq(text, 1, Min(Len(text), size - 1))

HexDigits == <<"0", "1", "2", "3", "4", "5", "6", "7",
               "8", "9", "a", "b", "c", "d", "e", "f">>

\* A ToHex that prints nothing for 0.
RECURSIVE ToHex_NoZero(_)
ToHex_NoZero(n) == IF n = 0 THEN <<>>
                   ELSE ToHex_NoZero(n \div 16) \o <<HexDigits[(n % 16) + 1]>>

\* The "%x" conversion: lowercase hexadecimal, no padding, no prefix.
RECURSIVE ToHex(_)
ToHex(n) == IF n < 16 THEN <<HexDigits[n + 1]>>
            ELSE ToHex(n \div 16) \o <<HexDigits[(n % 16) + 1]>>

(***************************************************************************)
(* Constants of the program.                                               *)
(***************************************************************************)
kIOReturnSuccess == "kIOReturnSuccess"
kIOReturnError == "kIOReturnError"

\* char serialStr[256]
SerialStrSize == 256
\* char locStr[9]
LocStrSize == 9
\* room for the interface number in uniqueStr: result->getLength() + 3 + 1
IfaceRoom == 3

\* usbdevs.h: the vendor/product pairs of an unprogrammed EEPROM.
SILABS_VENDOR == 4292
SILABS_PRODUCT == 60000
coop_plausible_driver_CP210x_default_ids ==
    << [vendor |-> SILABS_VENDOR, product |-> SILABS_PRODUCT] >>
coop_plausible_driver_CP210x_default_ids_count ==
    Len(coop_plausible_driver_CP210x_default_ids)

\* The factory-default serial number, "0001".
SILABS_DEFAULT_EEPROM_SERIAL == <<"0", "0", "0", "1">>

\* The literal returned when no identifying data is available.
UnknownSuffix == <<"u", "n", "k", "n", "o", "w", "n">>

\* kIOTTYBaseNameKey's value.
CP210x == <<"C", "P", "2", "1", "0", "x">>

(***************************************************************************)
(* Inputs: the facts of the USB device and interface.                      *)
(***************************************************************************)
\* (vendor, product): in the table, right vendor only, right product only.
Identities == { <<SILABS_VENDOR, SILABS_PRODUCT>>,
                <<SILABS_VENDOR, 24577>>,
                <<1027, SILABS_PRODUCT>> }

RECURSIVE Ones(_)
Ones(n) == IF n = 0 THEN <<>> ELSE Ones(n - 1) \o <<"1">>

\* What a successful GetStringDescriptor leaves in serialStr.
Serials == { <<>>, <<" ">>, SILABS_DEFAULT_EEPROM_SERIAL }
           \cup { Ones(n) : n \in 1..MaxSerialLen }

\* What serialStr, never written, may hold after a failed fetch.
Garbage == { <<>>, <<"1">> }

\* [idx, ret, serialStr]: the serial-number string index of the device
\* descriptor and what GetStringDescriptor(idx, ...) does.
SerialOutcomes ==
    { [idx |-> 0, ret |-> kIOReturnError, serialStr |-> <<>>] }
    \cup { [idx |-> 3, ret |-> kIOReturnError, serialStr |-> g] : g \in Garbage }
    \cup { [idx |-> 3, ret |-> kIOReturnSuccess, serialStr |-> s] : s \in Serials }

\* The kUSBDevicePropertyLocationID property: NULL or an OSNumber.
Locations == { NULL, <<0>>, <<17>>, <<438304768>> }

InterfaceNumbers == (0..MaxInterface) \cup {16}

Devices == { [vendorId |-> id[1], productId |-> id[2], serial |-> s, location |-> l] :
             id \in Identities, s \in SerialOutcomes, l \in Locations }

(***************************************************************************)
(* getDeviceNameSuffix                                                     *)
(***************************************************************************)
\* A table scan that compares the vendor only.
IsDefaultEEPROMID_VendorOnly(vendorId, prodId) ==
    \E i \in 1..coop_plausible_driver_CP210x_default_ids_count :
        coop_plausible_driver_CP210x_default_ids[i].vendor = vendorId

\* The scan of the default-ID table: TRUE iff some entry matches the
\* vendor and the product.
IsDefaultEEPROMID(vendorId, prodId) ==
    \E i \in 1..coop_plausible_driver_CP210x_default_ids_count :
        /\ ~(vendorId # coop_plausible_driver_CP210x_default_ids[i].vendor)
        /\ ~(prodId # coop_plausible_driver_CP210x_default_ids[i].product)

\* The test without the comparison against the factory-default serial.
SerialUsable_NoDefaultCheck(defaultEEPROMID, ret, serialStr) ==
    ret = kIOReturnSuccess /\ strnlen(serialStr, SerialStrSize) > 0

\* The test with the result of the fetch ignored.
SerialUsable_IgnoreRet(defaultEEPROMID, ret, serialStr) ==
    /\ strnlen(serialStr, SerialStrSize) > 0
    /\ (~defaultEEPROMID \/ serialStr # SILABS_DEFAULT_EEPROM_SERIAL)

\* The test with whitespace-only strings counted as empty.
SerialUsable_Trimmed(defaultEEPROMID, ret, serialStr) ==
    /\ ret = kIOReturnSuccess
    /\ \E i \in 1..strnlen(serialStr, SerialStrSize) : serialStr[i] # " "
    /\ (~defaultEEPROMID \/ serialStr # SILABS_DEFAULT_EEPROM_SERIAL)

\* The fetched serial number is used iff the fetch succeeded, the string is
\* not empty, and it is not the factory default of a default-ID device.
SerialUsable(defaultEEPROMID, ret, serialStr) ==
    /\ ret = kIOReturnSuccess
    /\ strnlen(serialStr, SerialStrSize) > 0
    /\ (~defaultEEPROMID \/ serialStr # SILABS_DEFAULT_EEPROM_SERIAL)

\* First tier: the serial number.  fetched: GetStringDescriptor was called.
SerialTier(defaultEEPROMID, serial) ==
    IF serial.idx # 0
    THEN [result |-> IF SerialUsable(defaultEEPROMID, serial.ret, serial.serialStr)
                     THEN OSString_withCString(serial.serialStr)
                     ELSE NULL,
          fetched |-> TRUE]
    ELSE [result |-> NULL, fetched |-> FALSE]

\* A location tier that does not look at the result of the serial tier.
LocationTier_Always(result, location) ==
    [result |-> IF location # NULL
                THEN OSString_withCString(snprintf(LocStrSize, ToHex(location[1])))
                ELSE result,
     locationRead |-> TRUE]

\* Second tier: the location ID, read only when there is no result yet.
LocationTier(result, location) ==
    IF result = NULL
    THEN [result |-> IF location # NULL
                     THEN OSString_withCString(snprintf(LocStrSize, ToHex(location[1])))
                     ELSE NULL,
          locationRead |-> TRUE]
    ELSE [result |-> result, locationRead |-> FALSE]

\* LOG_ERR is called iff both tiers left result NULL.
LOG_ERR(result) == result = NULL

\* uniqueStr without room for the interface number.
UniqueStr_NoRoom(result, interfaceNumber) ==
    OSString_withCString(
        snprintf(getLength(result) + 1,
                 getCStringNoCopy(result) \o ToHex(interfaceNumber)))

\* "%s%x" of the result and the interface number into
\* char uniqueStr[result->getLength() + 3 + 1].
UniqueStr(result, interfaceNumber) ==
    OSString_withCString(
        snprintf(getLength(result) + IfaceRoom + 1,
                 getCStringNoCopy(result) \o ToHex(interfaceNumber)))

\* An end of the function that appends the interface number to "unknown" too.
ReturnSuffix_NoBailOut(result, interfaceNumber) ==
    UniqueStr(IF result = NULL THEN OSString_withCString(UnknownSuffix) ELSE result,
              interfaceNumber)

\* The end of the function: bail out early with "unknown" when result is
\* NULL, else return the result made unique.
ReturnSuffix(result, interfaceNumber) ==
    IF result = NULL
    THEN OSString_withCString(UnknownSuffix)
    ELSE UniqueStr(result, interfaceNumber)

\* The whole function.  suffix: the returned string; tier: the tier that
\* supplied it; candidate: the string before the interface number was
\* appended (NULL in the fallback); logErr, fetched, locationRead: the
\* calls made on the way.
getDeviceNameSuffix(device, interfaceNumber) ==
    LET defaultEEPROMID == IsDefaultEEPROMID(device.vendorId, device.productId)
        t1 == SerialTier(defaultEEPROMID, device.serial)
        t2 == LocationTier(t1.result, device.location)
        result == t2.result
    IN  [suffix |-> ReturnSuffix(result, interfaceNumber),
         tier |-> IF t1.result # NULL THEN "serial"
                  ELSE IF result # NULL THEN "location" ELSE "unknown",
         candidate |-> result,
         logErr |-> LOG_ERR(result),
         fetched |-> t1.fetched,
         locationRead |-> t2.locationRead]

(***************************************************************************)
(* The state: one SerialDevice object, the interface it was created for,   *)
(* and the name given to the interface attached before it.                 *)
(***************************************************************************)
VARIABLES
    device,        \* the facts of the USB device of the interface
    interface,     \* interface->GetInterfaceNumber()
    pc,            \* "constructed", "inited" (init returned) or "freed"
    _stream,       \* the _stream field: NULL or the stream object
    initResult,    \* what init returned
    streamCalls,   \* the calls made on the stream object, in order
    properties,    \* the properties set on the stream object
    naming,        \* NULL, or what getDeviceNameSuffix did in init
    prev           \* NULL, or the last naming before this object's

vars == <<device, interface, pc, _stream, initResult, streamCalls,
          properties, naming, prev>>

\* The one stream object an init allocates.
IORS232SerialStreamSync == <<"IORS232SerialStreamSync">>

Call(op, ret) == [op |-> op, ret |-> ret]

\* Memory of an OSObject is zero-filled on allocation: _stream starts NULL.
Init ==
    /\ device \in Devices
    /\ interface \in InterfaceNumbers
    /\ pc = "constructed"
    /\ _stream = NULL
    /\ initResult = FALSE
    /\ streamCalls = <<>>
    /\ properties = [kIOTTYBaseNameKey |-> NULL, kIOTTYSuffixKey |-> NULL]
    /\ naming = NULL
    /\ prev = NULL

\* A finish block that releases the stream and keeps the pointer.
finish_KeepPointer(result, stream) ==
    IF ~result
    THEN [calls |-> <<Call("release", TRUE)>>, stream |-> stream]
    ELSE [calls |-> <<>>, stream |-> stream]

\* The finish: block of init: on failure release the stream and clear
\* the field.
finish(result, stream) ==
    IF ~result
    THEN [calls |-> <<Call("release", TRUE)>>, stream |-> NULL]
    ELSE [calls |-> <<>>, stream |-> stream]

\* The "-%s" of the suffix into char dashSuffix[suffix->getLength() + 1 + 1].
DashSuffix(suffix) ==
    snprintf(getLength(suffix) + 1 + 1, <<"-">> \o getCStringNoCopy(suffix))

\* init(provider, interface).  superInit, alloc, streamInit, attach: whether
\* super::init, new, _stream->init and _stream->attach succeed.
init(superInit, alloc, streamInit, attach) ==
    /\ pc = "constructed"
    /\ pc' = "inited"
    /\ UNCHANGED <<device, interface, prev>>
    /\ IF ~superInit
       THEN /\ initResult' = FALSE
            /\ UNCHANGED <<_stream, streamCalls, properties, naming>>
       ELSE IF ~alloc
       THEN /\ _stream' = NULL
            /\ initResult' = FALSE
            /\ UNCHANGED <<streamCalls, properties, naming>>
       ELSE IF ~streamInit
       THEN LET f == finish(FALSE, IORS232SerialStreamSync)
            IN  /\ streamCalls' = <<Call("new", TRUE), Call("init", FALSE)>> \o f.calls
                /\ _stream' = f.stream
                /\ initResult' = FALSE
                /\ UNCHANGED <<properties, naming>>
       ELSE IF ~attach
       THEN LET f == finish(FALSE, IORS232SerialStreamSync)
            IN  /\ streamCalls' = <<Call("new", TRUE), Call("init", TRUE),
                                    Call("attach", FALSE)>> \o f.calls
                /\ _stream' = f.stream
                /\ initResult' = FALSE
                /\ UNCHANGED <<properties, naming>>
       ELSE LET n == getDeviceNameSuffix(device, interface)
                f == finish(TRUE, IORS232SerialStreamSync)
            IN  /\ naming' = <<n>>
                /\ properties' = [kIOTTYBaseNameKey |-> <<CP210x>>,
                                  kIOTTYSuffixKey |-> <<DashSuffix(n.suffix)>>]
                /\ streamCalls' = <<Call("new", TRUE), Call("init", TRUE),
                                    Call("attach", TRUE),
                                    Call("setProperty kIOTTYBaseNameKey", TRUE),
                                    Call("setProperty kIOTTYSuffixKey", TRUE),
                                    Call("registerService", TRUE)>> \o f.calls
                /\ _stream' = f.stream
                /\ initResult' = TRUE

\* free(): release the stream if the field is set.
free ==
    /\ pc = "inited"
    /\ pc' = "freed"
    /\ streamCalls' = IF _stream # NULL
                      THEN Append(streamCalls, Call("release", TRUE))
                      ELSE streamCalls
    /\ UNCHANGED <<device, interface, _stream, initResult, properties, naming, prev>>

\* A new SerialDevice object is constructed for interface i of device d.
\* remembered: what is kept in prev.
Construct(d, i, remembered) ==
    /\ pc = "freed"
    /\ pc' = "constructed"
    /\ device' = d
    /\ interface' = i
    /\ _stream' = NULL
    /\ initResult' = FALSE
    /\ streamCalls' = <<>>
    /\ properties' = [kIOTTYBaseNameKey |-> NULL, kIOTTYSuffixKey |-> NULL]
    /\ naming' = NULL
    /\ prev' = remembered

\* The naming of this object if init got that far, else the one before it.
LastNaming ==
    IF naming # NULL
    THEN <<[device |-> device, interface |-> interface, naming |-> naming[1]]>>
    ELSE prev

\* Another interface of the same device attaches.
NextInterface(i) ==
    /\ i # interface
    /\ Construct(device, i, LastNaming)

\* An interface of another device attaches; the namings of the device
\* before it are forgotten.
NextDevice(d, i) ==
    /\ d # device
    /\ Construct(d, i, NULL)

\* An interface of another device attaches after this one was named; the
\* naming is remembered.
NextDeviceRemembered(d, i) ==
    /\ d # device
    /\ naming # NULL
    /\ Construct(d, i, LastNaming)

Next ==
    \/ \E superInit, alloc, streamInit, attach \in BOOLEAN :
           init(superInit, alloc, streamInit, attach)
    \/ free
    \/ \E i \in InterfaceNumbers : NextInterface(i)
    \/ \E d \in Devices, i \in InterfaceNumbers : NextDevice(d, i)

Spec == Init /\ [][Next]_vars

\* The same objects, with the naming of the device attached before kept.
NextDevices ==
    \/ \E superInit, alloc, streamInit, attach \in BOOLEAN :
           init(superInit, alloc, streamInit, attach)
    \/ free
    \/ \E i \in InterfaceNumbers : NextInterface(i)
    \/ \E d \in Devices, i \in InterfaceNumbers : NextDeviceRemembered(d, i)

SpecDevices == Init /\ [][NextDevices]_vars

(***************************************************************************)
(* The properties.  The conditions below are stated on the inputs of the   *)
(* call, not on what the function computed on the way.                     *)
(***************************************************************************)
\* The string init got from getDeviceNameSuffix (when naming # NULL).
Suffix == getCStringNoCopy(naming[1].suffix)

\* The device has the vendor and the product of the default-ID entry.
InDefaultIdTable == device.vendorId = 4292 /\ device.productId = 60000

FactoryDefaultSerial == <<"0", "0", "0", "1">>

Unknown == <<"u", "n", "k", "n", "o", "w", "n">>

\* The device has a serial index and the fetch of the string succeeds.
FetchSucceeds ==
    device.serial.idx # 0 /\ device.serial.ret = kIOReturnSuccess

\* The serial string is there, but only whitespace.
WhitespaceOnly(s) == s # <<>> /\ \A k \in 1..Len(s) : s[k] = " "

\* The serial-number tier succeeds.
SerialTierSucceeds ==
    /\ FetchSucceeds
    /\ device.serial.serialStr # <<>>
    /\ (~InDefaultIdTable \/ device.serial.serialStr # FactoryDefaultSerial)

\* What a device without a usable serial number is named.
NamedWithoutSerial ==
    IF device.location # NULL
    THEN Suffix = ToHex(device.location[1]) \o ToHex(interface)
    ELSE Suffix = Unknown

\* C1: whatever the inputs, getDeviceNameSuffix returns a non-empty string.
C1_SuffixNeverEmpty ==
    naming # NULL => Len(Suffix) > 0 /\ getLength(naming[1].suffix) > 0

\* C1 witness: a name was resolved in the fallback after a failed fetch of
\* a device without location ID.
C1_Witness ==
    /\ naming # NULL
    /\ device.serial.idx # 0 /\ device.serial.ret # kIOReturnSuccess
    /\ device.location = NULL
    /\ Len(Suffix) > 0

\* C2 as claimed: when neither tier produces a candidate, the suffix is
\* "unknown" followed by the interface number in hexadecimal.
C2_FallbackHasInterfaceNumber ==
    (naming # NULL /\ ~SerialTierSucceeds /\ device.location = NULL)
        => Suffix = Unknown \o ToHex(interface)

\* C2 as amended: when neither tier produces a candidate, the suffix is the
\* bare literal "unknown", with no interface number appended, whatever the
\* interface number.
C2_FallbackIsBareUnknown ==
    (naming # NULL /\ ~SerialTierSucceeds /\ device.location = NULL)
        => Suffix = Unknown

\* C2 witness: the fallback was taken for an interface number other than 0.
C2_Witness ==
    /\ naming # NULL /\ ~SerialTierSucceeds /\ device.location = NULL
    /\ interface # 0
    /\ Suffix = Unknown

\* Two interfaces of the same device were named, this one and one before.
TwoInterfacesNamed ==
    /\ naming # NULL /\ prev # NULL
    /\ prev[1].device = device
    /\ prev[1].interface # interface

\* C3 as claimed: two calls for the same device with different interface
\* numbers return different suffixes, whichever tier was taken.
C3_InterfacesDifferInEveryTier ==
    TwoInterfacesNamed => prev[1].naming.suffix # naming[1].suffix

\* C3 as amended: two calls for the same device with different interface
\* numbers return different suffixes when the serial number or the location
\* ID supplied the candidate; in the fallback both return "unknown".
C3_InterfacesDifferOutsideFallback ==
    TwoInterfacesNamed =>
        IF SerialTierSucceeds \/ device.location # NULL
        THEN prev[1].naming.suffix # naming[1].suffix
        ELSE /\ getCStringNoCopy(prev[1].naming.suffix) = Unknown
             /\ Suffix = Unknown

\* C3 witness: two interfaces of a device named by its location ID.
C3_Witness ==
    /\ TwoInterfacesNamed
    /\ ~SerialTierSucceeds /\ device.location # NULL
    /\ prev[1].naming.suffix # naming[1].suffix

\* C4: for a device of the default-ID table the factory-default serial is
\* never the candidate; with a location ID the suffix is the location ID
\* and the interface number in hexadecimal ("1a2000000" in the example).
C4_FactoryDefaultRejected ==
    (naming # NULL /\ InDefaultIdTable /\ FetchSucceeds
        /\ device.serial.serialStr = FactoryDefaultSerial)
    => /\ naming[1].tier # "serial"
       /\ naming[1].candidate # <<FactoryDefaultSerial>>
       /\ naming[1].locationRead
       /\ NamedWithoutSerial
       /\ (device.location = <<438304768>> /\ interface = 0)
            => Suffix = <<"1", "a", "2", "0", "0", "0", "0", "0", "0">>

\* C4 witness: the example of the claim.
C4_Witness ==
    /\ naming # NULL /\ InDefaultIdTable /\ FetchSucceeds
    /\ device.serial.serialStr = FactoryDefaultSerial
    /\ device.location = <<438304768>> /\ interface = 0
    /\ Suffix = <<"1", "a", "2", "0", "0", "0", "0", "0", "0">>

\* C5: when the serial tier succeeds, the candidate is the fetched string
\* and the suffix is that string followed by the interface number in
\* hexadecimal, with or without a location ID; a device that is not in the
\* table has its factory-default serial used.
C5_SerialUsedExactly ==
    (naming # NULL /\ SerialTierSucceeds)
    => /\ naming[1].candidate = <<device.serial.serialStr>>
       /\ Suffix = device.serial.serialStr \o ToHex(interface)
       /\ ~naming[1].locationRead

\* C5 witness: a device that is not in the table, with the factory-default
\* serial and a location ID, was named by its serial.
C5_Witness ==
    /\ naming # NULL /\ ~InDefaultIdTable /\ FetchSucceeds
    /\ device.vendorId = 4292
    /\ device.serial.serialStr = FactoryDefaultSerial
    /\ device.location # NULL
    /\ interface = 16
    /\ Suffix = <<"0", "0", "0", "1", "1", "0">>

\* C6: the tiers are strictly ordered and exactly one supplies the
\* candidate: the location ID is read iff the serial tier gave nothing,
\* "unknown" is used iff the serial tier gave nothing and there is no
\* location ID, and a failed fetch gives what an absent serial index gives.
C6_TiersStrictlyOrdered ==
    naming # NULL =>
       /\ naming[1].fetched = (device.serial.idx # 0)
       /\ naming[1].locationRead = ~SerialTierSucceeds
       /\ (naming[1].tier = "serial") = SerialTierSucceeds
       /\ (naming[1].tier = "location") = (~SerialTierSucceeds /\ device.location # NULL)
       /\ (naming[1].tier = "unknown") = (~SerialTierSucceeds /\ device.location = NULL)
       /\ naming[1].tier = "serial" => naming[1].candidate = <<device.serial.serialStr>>
       /\ naming[1].tier = "location" => naming[1].candidate = <<ToHex(device.location[1])>>
       /\ naming[1].tier = "unknown" => naming[1].candidate = NULL
       /\ (device.serial.idx = 0 \/ device.serial.ret # kIOReturnSuccess)
            => NamedWithoutSerial

\* C6 witness: the fetch of a device with a location ID failed and the
\* device was named by its location ID.
C6_Witness ==
    /\ naming # NULL
    /\ device.serial.idx # 0 /\ device.serial.ret # kIOReturnSuccess
    /\ device.serial.serialStr # <<>>
    /\ device.location # NULL
    /\ naming[1].tier = "location"

\* C7: the diagnostic is emitted iff the fallback is used, i.e. iff neither
\* the serial tier nor the location ID gives a candidate.
C7_DiagnosticIffFallback ==
    naming # NULL =>
        (naming[1].logErr = (~SerialTierSucceeds /\ device.location = NULL))

\* C7 witness: a failed fetch with a location ID, and no diagnostic.
C7_Witness ==
    /\ naming # NULL
    /\ device.serial.idx # 0 /\ device.serial.ret # kIOReturnSuccess
    /\ device.location # NULL
    /\ ~naming[1].logErr

\* C7 witness of the other direction: the fallback, with the diagnostic.
C7_WitnessFallback ==
    /\ naming # NULL /\ ~SerialTierSucceeds /\ device.location = NULL
    /\ naming[1].logErr

\* C8: two calls of the same tier whose candidates differ return different
\* suffixes, whatever their interface numbers.
C8_SuffixUniqueAcrossDevices ==
    (/\ naming # NULL /\ prev # NULL
     /\ naming[1].tier # "unknown"
     /\ prev[1].naming.tier = naming[1].tier
     /\ prev[1].naming.candidate # naming[1].candidate)
    => prev[1].naming.suffix # naming[1].suffix

\* C9 as claimed: a successfully fetched serial of whitespace only is not
\* used; the device is named as one with a zero-length serial is.
C9_WhitespaceSerialSkipped ==
    (naming # NULL /\ FetchSucceeds /\ WhitespaceOnly(device.serial.serialStr))
    => naming[1].tier # "serial" /\ NamedWithoutSerial

\* C9 as amended: the serial tier is skipped when the successfully fetched
\* string has length zero; nothing is trimmed, and a serial of whitespace
\* only is used as the candidate like any other non-empty string.
C9_OnlyZeroLengthSkipped ==
    /\ (naming # NULL /\ FetchSucceeds /\ device.serial.serialStr = <<>>)
       => naming[1].tier # "serial" /\ NamedWithoutSerial
    /\ (naming # NULL /\ FetchSucceeds /\ WhitespaceOnly(device.serial.serialStr))
       => /\ naming[1].tier = "serial"
          /\ naming[1].candidate = <<device.serial.serialStr>>
          /\ Suffix = device.serial.serialStr \o ToHex(interface)

\* C9 witness: a device whose serial is one blank was named by it.
C9_Witness ==
    /\ naming # NULL /\ FetchSucceeds
    /\ device.serial.serialStr = <<" ">>
    /\ interface = 1
    /\ Suffix = <<" ", "1">>

\* The positions of the calls of op on the stream object.
Calls(op) == { k \in DOMAIN streamCalls : streamCalls[k].op = op }

\* Call op was made before position k and returned true.
SucceededBefore(op, k) ==
    \E j \in Calls(op) : j < k /\ streamCalls[j].ret

\* C10: whatever the outcome of init, init and free together release the
\* stream exactly once if it was allocated; after a failed init _stream is
\* NULL and after a successful one it is not; registerService is called
\* only after init and attach succeeded and both properties were set.
C10_StreamReleasedOnce ==
    /\ Cardinality(Calls("release")) <= Cardinality(Calls("new"))
    /\ Cardinality(Calls("new")) <= 1
    /\ pc = "inited" => (initResult = (_stream # NULL))
    /\ (pc = "inited" /\ initResult) => Calls("release") = {}
    /\ (pc = "inited" /\ ~initResult) =>
            Cardinality(Calls("release")) = Cardinality(Calls("new"))
    /\ pc = "freed" => Cardinality(Calls("release")) = Cardinality(Calls("new"))
    /\ \A k \in Calls("registerService") :
          /\ SucceededBefore("init", k)
          /\ SucceededBefore("attach", k)
          /\ SucceededBefore("setProperty kIOTTYBaseNameKey", k)
          /\ SucceededBefore("setProperty kIOTTYSuffixKey", k)
          /\ properties.kIOTTYBaseNameKey = <<CP210x>>
          /\ properties.kIOTTYSuffixKey = <<(<<"-">> \o Suffix)>>

\* C10 witness: an object whose attach failed was freed, the stream
\* released once.
C10_Witness ==
    /\ pc = "freed" /\ ~initResult
    /\ Calls("attach") # {}
    /\ Cardinality(Calls("release")) = 1

\* C10 witness of the success: registered, then freed, released once.
C10_WitnessSuccess ==
    /\ pc = "freed" /\ initResult
    /\ Calls("registerService") # {}
    /\ Cardinality(Calls("release")) = 1

====
